---------------------------- MODULE Spec2Model ----------------------------
(***************************************************************************)
(* A model of cppservergit/httpcli2: HttpClient, a synchronous libcurl     *)
(* wrapper.  The process runs its static initialisation (the               *)
(* CurlGlobalInitializer), then main(): sequential calls on the main       *)
(* thread, then the thread-safety test with joined worker threads, then    *)
(* static destruction.  Each get/post is HttpClient::Impl::performRequest: *)
(* the part before curl_easy_perform, the engine's callbacks during the    *)
(* transfer, and the part after curl_easy_perform returned.                *)
(***************************************************************************)
EXTENDS Integers, Sequences, FiniteSets, TLC

VARIABLES
    phase,        \* where the process is: static_init, main, threads, joined,
                  \* static_destroy, exited, terminated
    initCalls,    \* number of curl_global_init calls made so far
    cleanupCalls, \* number of curl_global_cleanup calls made so far
    libReady,     \* curl_global_init returned CURLE_OK and no cleanup ran since
    clients,      \* HttpClient objects: [alive, pimpl]
    impls,        \* heap of HttpClient::Impl objects: the m_config of each, or NoImpl
    call,         \* per thread: the performRequest activation it is in
    response      \* per thread: the local `HttpResponse response` of that activation

vars == <<phase, initCalls, cleanupCalls, libReady, clients, impls, call, response>>

---------------------------------------------------------------------------
(* Bounds of the model *)

\* worker threads started by test_thread_safety (num_threads in main.cpp)
NumWorkers == 2
\* HttpClient objects that can exist at one time
NumClients == 2
\* largest raw POST body length offered (SIZE_MAX of the scaled-down size_t)
MaxBodyLen == 5

\* width in bits of the engine's signed long length field, scaled down
LongBits == 3
\* std::numeric_limits<long>::max()
LONG_MAX == 2 ^ (LongBits - 1) - 1

MainThread == 0
Workers == 1 .. NumWorkers
Threads == {MainThread} \cup Workers
ClientIds == 1 .. NumClients
ImplIds == 1 .. NumClients
NULL == 0

---------------------------------------------------------------------------
(* Configuration *)

\* HttpClientConfig and its defaults
DefaultConnectTimeoutMs == 10000
DefaultRequestTimeoutMs == 30000
\* test_timeout's config.requestTimeoutMs
TestRequestTimeoutMs == 1000

HttpClientConfig(ct, rt, cert, key, pw) ==
    [connectTimeoutMs |-> ct, requestTimeoutMs |-> rt,
     clientCertPath |-> cert, clientKeyPath |-> key, clientKeyPassword |-> pw]

\* std::nullopt for the optional strings of the configuration
nullopt == "nullopt"

DefaultConfig ==
    HttpClientConfig(DefaultConnectTimeoutMs, DefaultRequestTimeoutMs, nullopt, nullopt, nullopt)

Configs ==
    { DefaultConfig,
      HttpClientConfig(DefaultConnectTimeoutMs, TestRequestTimeoutMs, nullopt, nullopt, nullopt),
      HttpClientConfig(0, 0, "client.pem", "client.key", "secret") }

NoImpl == [connectTimeoutMs |-> -1, requestTimeoutMs |-> -1,
           clientCertPath |-> nullopt, clientKeyPath |-> nullopt, clientKeyPassword |-> nullopt]

---------------------------------------------------------------------------
(* Strings that the code takes apart are sequences of one-character        *)
(* strings, so that find/substr/erase are computed as the code does.       *)

\* the characters in use, in ASCII order (std::less<> compares by code)
Ascii == <<"\t", "\n", "\r", " ", "0", "1", "2", "3", "4", ":", "A", "H", "L", "T", "X",
           "b", "h", "j", "n", "u">>

CharCode(c) == CHOOSE i \in 1 .. Len(Ascii) : Ascii[i] = c

\* a < b for std::string under std::less<>
RECURSIVE StrLess(_, _)
StrLess(a, b) ==
    IF b = <<>> THEN FALSE
    ELSE IF a = <<>> THEN TRUE
    ELSE IF Head(a) = Head(b) THEN StrLess(Tail(a), Tail(b))
    ELSE CharCode(Head(a)) < CharCode(Head(b))

\* the keys of a std::map in iteration order
RECURSIVE SortedKeys(_)
SortedKeys(keys) ==
    IF keys = {} THEN <<>>
    ELSE LET k == CHOOSE x \in keys : \A y \in keys \ {x} : StrLess(x, y)
         IN  <<k>> \o SortedKeys(keys \ {k})

RECURSIVE Concat(_)
Concat(ss) == IF ss = <<>> THEN <<>> ELSE Head(ss) \o Concat(Tail(ss))

\* std::string::npos, as a position of the 1-based sequences used here
npos == 0

\* (mutant) the last position holding c
Find_last(s, c) ==
    IF \E i \in 1 .. Len(s) : s[i] = c
    THEN CHOOSE i \in 1 .. Len(s) : s[i] = c /\ \A j \in (i + 1) .. Len(s) : s[j] # c
    ELSE npos

\* s.find(c): the first position holding c
Find(s, c) ==
    IF \E i \in 1 .. Len(s) : s[i] = c
    THEN CHOOSE i \in 1 .. Len(s) : s[i] = c /\ \A j \in 1 .. (i - 1) : s[j] # c
    ELSE npos

\* s.find_first_not_of(set)
FindFirstNotOf(s, set) ==
    IF \E i \in 1 .. Len(s) : s[i] \notin set
    THEN CHOOSE i \in 1 .. Len(s) : s[i] \notin set /\ \A j \in 1 .. (i - 1) : s[j] \in set
    ELSE npos

\* s.find_last_not_of(set)
FindLastNotOf(s, set) ==
    IF \E i \in 1 .. Len(s) : s[i] \notin set
    THEN CHOOSE i \in 1 .. Len(s) : s[i] \notin set /\ \A j \in (i + 1) .. Len(s) : s[j] \in set
    ELSE npos

\* s.erase(0, s.find_first_not_of(set)): npos erases the whole string
EraseLeading(s, set) ==
    LET p == FindFirstNotOf(s, set)
    IN  IF p = npos THEN <<>> ELSE SubSeq(s, p, Len(s))

\* s.erase(s.find_last_not_of(set) + 1): npos + 1 wraps to 0 and erases all
EraseTrailing(s, set) ==
    LET p == FindLastNotOf(s, set)
    IN  IF p = npos THEN <<>> ELSE SubSeq(s, 1, p)

HT == {" ", "\t"}
HTCRLF == {" ", "\t", "\r", "\n"}

\* the pair headerCallback stores for a line that holds a colon
ParsedKey(header) ==
    LET colon_pos == Find(header, ":")
        key == SubSeq(header, 1, colon_pos - 1)
    IN  EraseTrailing(EraseLeading(key, HT), HT)

\* (mutant) the value keeps its leading blanks
ParsedValue_nolead(header) ==
    LET colon_pos == Find(header, ":")
        value == SubSeq(header, colon_pos + 1, Len(header))
    IN  EraseTrailing(value, HTCRLF)

ParsedValue(header) ==
    LET colon_pos == Find(header, ":")
        value == SubSeq(header, colon_pos + 1, Len(header))
    IN  EraseTrailing(EraseLeading(value, HT), HTCRLF)

\* (mutant) an entry already in the map is kept (std::map::insert)
MapPut_keepfirst(m, k, v) ==
    [x \in DOMAIN m \cup {k} |-> IF x \in DOMAIN m THEN m[x] ELSE v]

\* (*responseHeaders)[key] = value
MapPut(m, k, v) == [x \in DOMAIN m \cup {k} |-> IF x = k THEN v ELSE m[x]]

EmptyMap == [x \in {} |-> <<>>]

\* (mutant) a line without a colon is stored as a name with an empty value
headerCallback_always(responseHeaders, header) ==
    IF Find(header, ":") # npos
    THEN MapPut(responseHeaders, ParsedKey(header), ParsedValue(header))
    ELSE MapPut(responseHeaders, EraseTrailing(EraseLeading(header, HT), HTCRLF), << >>)

\* (mutant) a line without a colon, such as the status line that opens each
\* response of a redirect chain, clears the map
headerCallback_resets(responseHeaders, header) ==
    IF Find(header, ":") # npos
    THEN MapPut(responseHeaders, ParsedKey(header), ParsedValue(header))
    ELSE EmptyMap

\* headerCallback's effect on the header map it is given
headerCallback(responseHeaders, header) ==
    IF Find(header, ":") # npos
    THEN MapPut(responseHeaders, ParsedKey(header), ParsedValue(header))
    ELSE responseHeaders

\* what headerCallback returns and leaves in the map: it reports the whole
\* line (size * nitems) whether or not the line held a pair
headerCallbackResult(responseHeaders, header) ==
    [ret |-> Len(header), headers |-> headerCallback(responseHeaders, header)]

\* (mutant) the chunk replaces what was received before
writeCallback_overwrite(responseBody, chunk) == chunk

\* writeCallback's effect on the body it is given: responseBody->append
writeCallback(responseBody, chunk) == responseBody \o chunk

---------------------------------------------------------------------------
(* Requests and the servers behind the URLs of the test program *)

Url(path, n) == [path |-> path, n |-> n]
NoUrl == Url("", -1)
UrlGet == Url("https://httpbin.org/get", -1)
UrlUnreachable == Url("http://192.0.2.1/test", -1)
UrlDelay == Url("https://httpbin.org/delay/3", -1)
UrlBadCert == Url("https://self-signed.badssl.com/", -1)
UrlNotFound == Url("https://httpbin.org/status/404", -1)
UrlPost == Url("https://httpbin.org/post", -1)
\* the URL worker thread i asks for
ThreadUrl(i) == Url("https://httpbin.org/get?thread=", i)

\* a URL that answers 302 with a Location header before the final response
UrlRedirect == Url("https://httpbin.org/redirect/1", -1)

MainUrls == {UrlGet, UrlPost, UrlUnreachable, UrlDelay, UrlBadCert, UrlNotFound}

\* the URLs offered to a single client
CallUrls == MainUrls \cup {UrlRedirect}

Digits == <<"0", "1", "2", "3", "4">>
Digit(i) == Digits[i + 1]

\* the delay of httpbin's /delay/3, in milliseconds
DelayMs == 3000

\* what the server behind a URL sends: header lines and body chunks in wire
\* order, the final status code, and whether it can be reached at all; hops
\* are the redirect responses (status and header lines) that lead to it
Server(url) ==
    CASE url.path = "https://httpbin.org/get?thread=" ->
            [reachable |-> TRUE, tlsOk |-> TRUE, delayMs |-> 0, status |-> 200, hops |-> << >>,
             lines |-> << <<"H", " ", "2", "\r", "\n">>,
                          <<"T", ":", " ", Digit(url.n), "\r", "\n">> >>,
             chunks |-> << <<"b", Digit(url.n)>>, <<"n">> >>]
      [] url.path = "https://httpbin.org/get" ->
            [reachable |-> TRUE, tlsOk |-> TRUE, delayMs |-> 0, status |-> 200, hops |-> << >>,
             lines |-> << <<"H", " ", "2", "\r", "\n">>,
                          <<"L", ":", "u", "\r", "\n">> >>,
             chunks |-> << <<"u">>, <<>> >>]
      [] url.path = "https://httpbin.org/post" ->
            [reachable |-> TRUE, tlsOk |-> TRUE, delayMs |-> 0, status |-> 200, hops |-> << >>,
             lines |-> << <<"H", " ", "2", "\r", "\n">> >>,
             chunks |-> << <<"j", "n">> >>]
      [] url.path = "https://httpbin.org/delay/3" ->
            [reachable |-> TRUE, tlsOk |-> TRUE, delayMs |-> DelayMs, status |-> 200, hops |-> << >>,
             lines |-> << <<"H", " ", "2", "\r", "\n">> >>,
             chunks |-> << <<"h">> >>]
      [] url.path = "https://httpbin.org/status/404" ->
            [reachable |-> TRUE, tlsOk |-> TRUE, delayMs |-> 0, status |-> 404, hops |-> << >>,
             lines |-> << <<"H", " ", "4", "\r", "\n">>,
                          <<"X", ":", "j", "\r", "\n">> >>,
             chunks |-> << <<"n", "f">> >>]
      [] url.path = "https://httpbin.org/redirect/1" ->
            [reachable |-> TRUE, tlsOk |-> TRUE, delayMs |-> 0, status |-> 200,
             hops |-> << [status |-> 302,
                          lines |-> << <<"H", " ", "3", "\r", "\n">>,
                                       <<"L", ":", "r", "\r", "\n">>,
                                       <<"X", ":", "j", "\r", "\n">> >>] >>,
             lines |-> << <<"H", " ", "2", "\r", "\n">>,
                          <<"X", ":", "h", "b", "\r", "\n">> >>,
             chunks |-> << <<"u">> >>]
      [] url.path = "https://self-signed.badssl.com/" ->
            [reachable |-> TRUE, tlsOk |-> FALSE, delayMs |-> 0, status |-> 200, hops |-> << >>,
             lines |-> << >>, chunks |-> << >>]
      [] OTHER ->
            [reachable |-> FALSE, tlsOk |-> TRUE, delayMs |-> 0, status |-> 0, hops |-> << >>,
             lines |-> << >>, chunks |-> << >>]

\* caller-supplied header maps (std::map<std::string, std::string, std::less<>>)
HeaderMaps ==
    { EmptyMap,
      [k \in { <<"A">> } |-> <<"j">>],
      [k \in { <<"X">>, <<"A">> } |-> IF k = <<"A">> THEN <<"j">> ELSE <<"h", "b">>] }

\* HttpFormPart: a name and either a text value or an HttpFormFile
TextPart(name, value) ==
    [name |-> name, kind |-> "text", value |-> value, filePath |-> "", contentType |-> nullopt]
FilePart(name, path, type) ==
    [name |-> name, kind |-> "file", value |-> "", filePath |-> path, contentType |-> type]

FormPartLists ==
    { << >>,
      << TextPart("field1", "value1"), FilePart("file1", "test_upload_file.txt", "text/plain") >>,
      << FilePart("file1", "test_upload_file.txt", nullopt) >> }

\* std::optional<std::string> postBody: only its length matters to the code
NoBody == -1

\* the arguments of one performRequest activation
Request(op, url, headers, postBody, hasParts, formParts) ==
    [op |-> op, url |-> url, headers |-> headers,
     postBody |-> postBody, hasParts |-> hasParts, formParts |-> formParts]

NoRequest == Request("none", NoUrl, EmptyMap, NoBody, FALSE, << >>)

\* HttpClient::get: performRequest(url, nullopt, nullopt, headers)
GetRequest(url, headers) == Request("get", url, headers, NoBody, FALSE, << >>)
\* HttpClient::post(url, body, headers): performRequest(url, body, nullopt, headers)
PostBodyRequest(url, body, headers) == Request("post_body", url, headers, body, FALSE, << >>)
\* HttpClient::post(url, formParts, headers): performRequest(url, nullopt, formParts, headers)
PostFormRequest(url, parts, headers) == Request("post_form", url, headers, NoBody, TRUE, parts)

\* HttpResponse; a fresh local one has an indeterminate statusCode
Indeterminate == -1
HttpResponse(code, body, headers) == [statusCode |-> code, body |-> body, headers |-> headers]
FreshResponse == HttpResponse(Indeterminate, << >>, EmptyMap)

---------------------------------------------------------------------------
(* The per-call resources of performRequest *)

\* a CURL easy handle and the options set on it; curl_easy_init's defaults
NoFrame == -1
NoMime == [live |-> FALSE, parts |-> << >>]
NoHandle ==
    [live |-> FALSE, URL |-> NoUrl, CONNECTTIMEOUT_MS |-> 0, TIMEOUT_MS |-> 0,
     SSLVERSION |-> "CURL_SSLVERSION_DEFAULT", FOLLOWLOCATION |-> 0, FAILONERROR |-> 0,
     USERAGENT |-> "",
     WRITEFUNCTION |-> "fwrite", WRITEDATA |-> NoFrame,
     HEADERFUNCTION |-> "none", HEADERDATA |-> NoFrame,
     SSLCERT |-> nullopt, SSLKEY |-> nullopt, KEYPASSWD |-> nullopt,
     HTTPHEADER |-> << >>, POSTFIELDS |-> NoFrame, POSTFIELDSIZE |-> -1, MIMEPOST |-> NoMime]

NewHandle == [NoHandle EXCEPT !.live = TRUE]

\* the header lines of a chain of redirect responses, in wire order
RECURSIVE HopLines(_)
HopLines(hops) == IF hops = << >> THEN << >> ELSE Head(hops).lines \o HopLines(Tail(hops))

\* what curl_easy_perform receives on a handle: with CURLOPT_FOLLOWLOCATION
\* set it follows the redirects, and the header callback is given the header
\* lines of every response of the chain; without it the first response is
\* the last.  The status is what CURLINFO_RESPONSE_CODE then reports.
Exchange(curl) ==
    LET s == Server(curl.URL)
    IN  IF s.hops = << >> THEN s
        ELSE IF curl.FOLLOWLOCATION = 1
             THEN [s EXCEPT !.lines = HopLines(s.hops) \o s.lines]
             ELSE [s EXCEPT !.lines = s.hops[1].lines, !.status = s.hops[1].status,
                            !.chunks = << >>]

\* the names of the resources a call acquires: the handle, the multipart
\* structure, and one node of the header list per appended header
EasyRes == <<"easy", 0>>
MimeRes == <<"mime", 0>>
SlistRes(i) == <<"slist", i>>

\* (mutant) a failed append returns the list it was given
curl_slist_append_keep(list, id, data, fails) ==
    IF fails THEN list ELSE Append(list, [id |-> id, data |-> data])

\* curl_slist_append: the list with one more node, or NULL (the empty list)
\* with the list given left as it was
curl_slist_append(list, id, data, fails) ==
    IF fails THEN << >> ELSE Append(list, [id |-> id, data |-> data])

\* header_string = key + ": " + value
HeaderString(key, value) == key \o <<":", " ">> \o value

\* build_headers: the loop over the map in key order; failAt are the
\* iterations whose curl_slist_append fails
RECURSIVE build_headers_from(_, _, _, _, _, _)
build_headers_from(headers, keys, i, failAt, header_list, allocated) ==
    IF i > Len(keys) THEN [list |-> header_list, allocated |-> allocated]
    ELSE LET key == keys[i]
             header_string == HeaderString(key, headers[key])
         IN  build_headers_from(headers, keys, i + 1, failAt,
                 curl_slist_append(header_list, i, header_string, i \in failAt),
                 IF i \in failAt THEN allocated ELSE allocated \cup {SlistRes(i)})

build_headers(headers, failAt) ==
    build_headers_from(headers, SortedKeys(DOMAIN headers), 1, failAt, << >>, {})

\* (mutant) the body and header sinks are one buffer shared by all calls
configure_common_options_shared(curl, url, t, m_config) ==
    [curl EXCEPT
        !.URL = url,
        !.CONNECTTIMEOUT_MS = m_config.connectTimeoutMs,
        !.TIMEOUT_MS = m_config.requestTimeoutMs,
        !.SSLVERSION = "CURL_SSLVERSION_TLSv1_2",
        !.FOLLOWLOCATION = 1,
        !.USERAGENT = "cpp-http-client/1.0",
        !.WRITEFUNCTION = "writeCallback",
        !.WRITEDATA = 1,
        !.HEADERFUNCTION = "headerCallback",
        !.HEADERDATA = 1,
        !.SSLCERT = m_config.clientCertPath,
        !.SSLKEY = m_config.clientKeyPath,
        !.KEYPASSWD = m_config.clientKeyPassword]

\* (mutant) the two timeouts of the configuration are not set on the handle
configure_common_options_notimeouts(curl, url, t, m_config) ==
    [curl EXCEPT
        !.URL = url,
        !.SSLVERSION = "CURL_SSLVERSION_TLSv1_2",
        !.FOLLOWLOCATION = 1,
        !.USERAGENT = "cpp-http-client/1.0",
        !.WRITEFUNCTION = "writeCallback",
        !.WRITEDATA = t,
        !.HEADERFUNCTION = "headerCallback",
        !.HEADERDATA = t,
        !.SSLCERT = m_config.clientCertPath,
        !.SSLKEY = m_config.clientKeyPath,
        !.KEYPASSWD = m_config.clientKeyPassword]

\* (mutant) a timeout of 0 in the configuration is replaced by the default
configure_common_options_zerodefault(curl, url, t, m_config) ==
    [curl EXCEPT
        !.URL = url,
        !.CONNECTTIMEOUT_MS = IF m_config.connectTimeoutMs = 0
                              THEN DefaultConnectTimeoutMs ELSE m_config.connectTimeoutMs,
        !.TIMEOUT_MS = IF m_config.requestTimeoutMs = 0
                       THEN DefaultRequestTimeoutMs ELSE m_config.requestTimeoutMs,
        !.SSLVERSION = "CURL_SSLVERSION_TLSv1_2",
        !.FOLLOWLOCATION = 1,
        !.USERAGENT = "cpp-http-client/1.0",
        !.WRITEFUNCTION = "writeCallback",
        !.WRITEDATA = t,
        !.HEADERFUNCTION = "headerCallback",
        !.HEADERDATA = t,
        !.SSLCERT = m_config.clientCertPath,
        !.SSLKEY = m_config.clientKeyPath,
        !.KEYPASSWD = m_config.clientKeyPassword]

\* (mutant) the minimum TLS version is set only when a client certificate
\* is configured
configure_common_options_notls(curl, url, t, m_config) ==
    [curl EXCEPT
        !.URL = url,
        !.CONNECTTIMEOUT_MS = m_config.connectTimeoutMs,
        !.TIMEOUT_MS = m_config.requestTimeoutMs,
        !.SSLVERSION = IF m_config.clientCertPath = nullopt
                       THEN "CURL_SSLVERSION_DEFAULT" ELSE "CURL_SSLVERSION_TLSv1_2",
        !.FOLLOWLOCATION = 1,
        !.USERAGENT = "cpp-http-client/1.0",
        !.WRITEFUNCTION = "writeCallback",
        !.WRITEDATA = t,
        !.HEADERFUNCTION = "headerCallback",
        !.HEADERDATA = t,
        !.SSLCERT = m_config.clientCertPath,
        !.SSLKEY = m_config.clientKeyPath,
        !.KEYPASSWD = m_config.clientKeyPassword]

\* (mutant) CURLOPT_FAILONERROR is set as well
configure_common_options_failonerror(curl, url, t, m_config) ==
    [curl EXCEPT
        !.URL = url,
        !.CONNECTTIMEOUT_MS = m_config.connectTimeoutMs,
        !.TIMEOUT_MS = m_config.requestTimeoutMs,
        !.SSLVERSION = "CURL_SSLVERSION_TLSv1_2",
        !.FOLLOWLOCATION = 1,
        !.FAILONERROR = 1,
        !.USERAGENT = "cpp-http-client/1.0",
        !.WRITEFUNCTION = "writeCallback",
        !.WRITEDATA = t,
        !.HEADERFUNCTION = "headerCallback",
        !.HEADERDATA = t,
        !.SSLCERT = m_config.clientCertPath,
        !.SSLKEY = m_config.clientKeyPath,
        !.KEYPASSWD = m_config.clientKeyPassword]

\* configure_common_options: the options set on the handle of frame t
configure_common_options(curl, url, t, m_config) ==
    [curl EXCEPT
        !.URL = url,
        !.CONNECTTIMEOUT_MS = m_config.connectTimeoutMs,
        !.TIMEOUT_MS = m_config.requestTimeoutMs,
        !.SSLVERSION = "CURL_SSLVERSION_TLSv1_2",
        !.FOLLOWLOCATION = 1,
        !.USERAGENT = "cpp-http-client/1.0",
        !.WRITEFUNCTION = "writeCallback",
        !.WRITEDATA = t,
        !.HEADERFUNCTION = "headerCallback",
        !.HEADERDATA = t,
        !.SSLCERT = m_config.clientCertPath,
        !.SSLKEY = m_config.clientKeyPath,
        !.KEYPASSWD = m_config.clientKeyPassword]

\* static_cast<long>(body_length)
ToLong(n) == IF n > LONG_MAX THEN n - 2 ^ LongBits ELSE n

\* (mutant) the length is narrowed to long without the guard
configure_post_body_unguarded(curl, t, body_length) ==
    [thrown |-> FALSE,
     curl |-> [curl EXCEPT !.POSTFIELDS = t, !.POSTFIELDSIZE = ToLong(body_length)]]

\* (mutant) an empty body is not attached
configure_post_body_skipempty(curl, t, body_length) ==
    IF body_length > LONG_MAX
    THEN [thrown |-> TRUE, curl |-> curl]
    ELSE IF body_length = 0
    THEN [thrown |-> FALSE, curl |-> curl]
    ELSE [thrown |-> FALSE,
          curl |-> [curl EXCEPT !.POSTFIELDS = t, !.POSTFIELDSIZE = ToLong(body_length)]]

\* configure_post_body: throws when the length does not fit a long
configure_post_body(curl, t, body_length) ==
    IF body_length > LONG_MAX
    THEN [thrown |-> TRUE, curl |-> curl]
    ELSE [thrown |-> FALSE,
          curl |-> [curl EXCEPT !.POSTFIELDS = t, !.POSTFIELDSIZE = ToLong(body_length)]]

\* one part of the multipart structure, as the curl_mime_* calls fill it
MimePart(part) ==
    IF part.kind = "text"
    THEN [name |-> part.name, data |-> part.value, filedata |-> "", type |-> nullopt]
    ELSE [name |-> part.name, data |-> "", filedata |-> part.filePath, type |-> part.contentType]

\* the loop of build_multipart_form from part i on; addpartFails are the
\* iterations whose curl_mime_addpart returns NULL: the curl_mime_* calls
\* on a NULL part do nothing, and the loop goes on
RECURSIVE AddParts(_, _, _)
AddParts(formParts, i, addpartFails) ==
    IF i > Len(formParts) THEN << >>
    ELSE (IF i \in addpartFails THEN << >> ELSE << MimePart(formParts[i]) >>)
            \o AddParts(formParts, i + 1, addpartFails)

\* (mutant) the result of curl_mime_init is not checked
build_multipart_form_unchecked(formParts, mimeInitFails, addpartFails) ==
    [thrown |-> FALSE,
     mime |-> IF mimeInitFails THEN NoMime
              ELSE [live |-> TRUE, parts |-> AddParts(formParts, 1, addpartFails)]]

\* build_multipart_form: throws when curl_mime_init fails
build_multipart_form(formParts, mimeInitFails, addpartFails) ==
    IF mimeInitFails
    THEN [thrown |-> TRUE, mime |-> NoMime]
    ELSE [thrown |-> FALSE,
          mime |-> [live |-> TRUE, parts |-> AddParts(formParts, 1, addpartFails)]]

---------------------------------------------------------------------------
(* One activation of performRequest *)

IdleCall ==
    [pc |-> "idle", req |-> NoRequest, curl |-> NoHandle, slist |-> << >>, mime |-> NoMime,
     allocated |-> {}, freed |-> << >>, performs |-> 0, res |-> "none",
     outcome |-> "none", what |-> "", result |-> FreshResponse,
     stage |-> "none", elapsed |-> 0, nLines |-> 0, nChunks |-> 0,
     lines |-> << >>, lineRets |-> << >>, chunks |-> << >>, chunkRets |-> << >>,
     oom |-> FALSE]

\* leaving performRequest's scope: the unique_ptr destructors run in reverse
\* order of declaration (mime_ptr, header_slist_ptr, curl_ptr), each calling
\* its deleter only when it holds a pointer
ScopeExit(c) ==
    [c EXCEPT
        !.freed = @ \o (IF c.mime.live THEN <<MimeRes>> ELSE << >>)
                    \o [i \in 1 .. Len(c.slist) |-> SlistRes(c.slist[i].id)]
                    \o (IF c.curl.live THEN <<EasyRes>> ELSE << >>),
        !.curl.live = FALSE,
        !.stage = "none"]

\* throw CurlException(what) out of performRequest
ThrowCurlException(c, what) ==
    ScopeExit([c EXCEPT !.pc = "done", !.outcome = "CurlException", !.what = what])

\* (mutant) the header list is freed as soon as it is set on the handle
EnterPerform_earlyfree(c) ==
    [c EXCEPT !.pc = "perform", !.performs = @ + 1, !.stage = "connecting",
              !.elapsed = 0, !.nLines = 0, !.nChunks = 0,
              !.lines = << >>, !.lineRets = << >>, !.chunks = << >>, !.chunkRets = << >>,
              !.freed = @ \o [i \in 1 .. Len(c.slist) |-> SlistRes(c.slist[i].id)],
              !.slist = << >>]

\* curl_easy_perform is entered
EnterPerform(c) ==
    [c EXCEPT !.pc = "perform", !.performs = @ + 1, !.stage = "connecting",
              !.elapsed = 0, !.nLines = 0, !.nChunks = 0,
              !.lines = << >>, !.lineRets = << >>, !.chunks = << >>, !.chunkRets = << >>]

\* performRequest up to and including the call of curl_easy_perform, in frame
\* t; easyInitFails, failAt, mimeInitFails and addpartFails are the engine's
\* allocation failures during it
performRequest_begin(t, m_config, req, easyInitFails, failAt, mimeInitFails, addpartFails) ==
    LET c0 == [IdleCall EXCEPT !.req = req]
    IN  IF easyInitFails
        THEN [c0 EXCEPT !.pc = "done", !.outcome = "CurlException",
                        !.what = "Failed to create CURL easy handle."]
        ELSE
        LET built == build_headers(req.headers, failAt)
            c1 == [c0 EXCEPT !.curl = configure_common_options(NewHandle, req.url, t, m_config),
                             !.slist = built.list,
                             !.allocated = {EasyRes} \cup built.allocated]
            c2 == IF c1.slist # << >>
                  THEN [c1 EXCEPT !.curl.HTTPHEADER =
                                      [i \in 1 .. Len(c1.slist) |-> c1.slist[i].data]]
                  ELSE c1
        IN  IF req.hasParts
            THEN LET m == build_multipart_form(req.formParts, mimeInitFails, addpartFails)
                 IN  IF m.thrown
                     THEN ThrowCurlException(c2, "curl_mime_init() failed.")
                     ELSE EnterPerform([c2 EXCEPT !.mime = m.mime,
                                                  !.curl.MIMEPOST = m.mime,
                                                  !.allocated = @ \cup
                                                      (IF m.mime.live THEN {MimeRes} ELSE {})])
            ELSE IF req.postBody # NoBody
            THEN LET b == configure_post_body(c2.curl, t, req.postBody)
                 IN  IF b.thrown
                     THEN ThrowCurlException(c2, "POST body is too large to be handled by libcurl.")
                     ELSE EnterPerform([c2 EXCEPT !.curl = b.curl])
            ELSE EnterPerform(c2)

\* curl_easy_strerror
curl_easy_strerror(res) ==
    CASE res = "CURLE_COULDNT_CONNECT" -> "Couldn't connect to server"
      [] res = "CURLE_OPERATION_TIMEDOUT" -> "Timeout was reached"
      [] res = "CURLE_PEER_FAILED_VERIFICATION" -> "SSL peer certificate or SSH remote key was not OK"
      [] res = "CURLE_WRITE_ERROR" -> "Failed writing received data to disk/application"
      [] res = "CURLE_RECV_ERROR" -> "Failure when receiving data from the peer"
      [] res = "CURLE_HTTP_RETURNED_ERROR" -> "HTTP response code said error"
      [] OTHER -> "No error"

\* (mutant) a failed transfer is performed a second time
performRequest_finish_retry(c, resp, res) ==
    IF res # "CURLE_OK"
    THEN IF c.performs < 2
         THEN EnterPerform(c)
         ELSE ThrowCurlException([c EXCEPT !.res = res],
                                 "curl_easy_perform() failed: " \o curl_easy_strerror(res))
    ELSE ScopeExit([c EXCEPT !.pc = "done", !.res = res, !.outcome = "response",
                             !.result = [resp EXCEPT !.statusCode = Exchange(c.curl).status]])

\* (mutant) the response code is not read back
performRequest_finish_noreadback(c, resp, res) ==
    IF res # "CURLE_OK"
    THEN ThrowCurlException([c EXCEPT !.res = res],
                            "curl_easy_perform() failed: " \o curl_easy_strerror(res))
    ELSE ScopeExit([c EXCEPT !.pc = "done", !.res = res, !.outcome = "response",
                             !.result = resp])

\* performRequest from the return of curl_easy_perform with res to its end;
\* resp is the frame's local response as the callbacks left it
performRequest_finish(c, resp, res) ==
    IF res # "CURLE_OK"
    THEN ThrowCurlException([c EXCEPT !.res = res],
                            "curl_easy_perform() failed: " \o curl_easy_strerror(res))
    ELSE ScopeExit([c EXCEPT !.pc = "done", !.res = res, !.outcome = "response",
                             !.result = [resp EXCEPT !.statusCode = Exchange(c.curl).status]])

\* an exception other than CurlException leaves performRequest (stack
\* unwinding runs the same destructors)
Unwind(c, exception) ==
    ScopeExit([c EXCEPT !.pc = "done", !.outcome = exception])

---------------------------------------------------------------------------
(* The process: static initialisation, main, static destruction *)

\* the revisions of CurlGlobalInitializer's constructor in the repository:
\* on failure one calls std::abort, one only writes to stderr, one throws
GuardRevisions == {"abort", "log", "throw"}

\* what a failed curl_global_init leads to
OnInitFailure(rev) ==
    CASE rev = "abort" -> "terminated"   \* std::abort()
      [] rev = "throw" -> "terminated"   \* exception out of a static initialiser
      [] OTHER -> "main"                 \* message on stderr only

Init ==
    /\ phase = "static_init"
    /\ initCalls = 0
    /\ cleanupCalls = 0
    /\ libReady = FALSE
    /\ clients = [c \in ClientIds |-> [alive |-> FALSE, pimpl |-> NULL]]
    /\ impls = [i \in ImplIds |-> NoImpl]
    /\ call = [t \in Threads |-> IdleCall]
    /\ response = [t \in Threads |-> FreshResponse]

\* the constructor of global_curl_initializer, run before main, in the
\* revision rev of the class; ok: curl_global_init returns CURLE_OK
StaticInit(ok, rev) ==
    /\ phase = "static_init"
    /\ initCalls' = initCalls + 1
    /\ libReady' = ok
    /\ phase' = IF ok THEN "main" ELSE OnInitFailure(rev)
    /\ UNCHANGED <<cleanupCalls, clients, impls, call, response>>

NoneInFlight == \A t \in Threads : call[t].pc \in {"idle", "finished"}

\* (mutant) every constructor initialises the library again
Construct_reinit(c, config) ==
    /\ phase = "main"
    /\ call[MainThread].pc = "idle"
    /\ ~clients[c].alive
    /\ \E i \in ImplIds :
          /\ impls[i] = NoImpl
          /\ \A j \in ImplIds : impls[j] = NoImpl => i <= j
          /\ impls' = [impls EXCEPT ![i] = config]
          /\ clients' = [clients EXCEPT ![c] = [alive |-> TRUE, pimpl |-> i]]
    /\ initCalls' = initCalls + 1
    /\ UNCHANGED <<phase, cleanupCalls, libReady, call, response>>

\* HttpClient::HttpClient(HttpClientConfig): pimpl(make_unique<Impl>(config))
Construct(c, config) ==
    /\ phase = "main"
    /\ call[MainThread].pc = "idle"
    /\ ~clients[c].alive
    /\ \E i \in ImplIds :
          /\ impls[i] = NoImpl
          /\ \A j \in ImplIds : impls[j] = NoImpl => i <= j
          /\ impls' = [impls EXCEPT ![i] = config]
          /\ clients' = [clients EXCEPT ![c] = [alive |-> TRUE, pimpl |-> i]]
    /\ UNCHANGED <<phase, initCalls, cleanupCalls, libReady, call, response>>

\* HttpClient::~HttpClient: the unique_ptr deletes the Impl it owns, if any
Destroy(c) ==
    /\ phase = "main"
    /\ call[MainThread].pc = "idle"
    /\ clients[c].alive
    /\ clients' = [clients EXCEPT ![c] = [alive |-> FALSE, pimpl |-> NULL]]
    /\ impls' = IF clients[c].pimpl # NULL
                THEN [impls EXCEPT ![clients[c].pimpl] = NoImpl]
                ELSE impls
    /\ UNCHANGED <<phase, initCalls, cleanupCalls, libReady, call, response>>

\* (mutant) the source keeps its pimpl: the Impl has two owners
MoveConstruct_copy(dst, src) ==
    /\ phase = "main"
    /\ call[MainThread].pc = "idle"
    /\ dst # src
    /\ ~clients[dst].alive
    /\ clients[src].alive
    /\ clients' = [clients EXCEPT ![dst] = [alive |-> TRUE, pimpl |-> clients[src].pimpl]]
    /\ UNCHANGED <<phase, initCalls, cleanupCalls, libReady, impls, call, response>>

\* HttpClient::HttpClient(HttpClient&&): a new object takes the source's pimpl
MoveConstruct(dst, src) ==
    /\ phase = "main"
    /\ call[MainThread].pc = "idle"
    /\ dst # src
    /\ ~clients[dst].alive
    /\ clients[src].alive
    /\ clients' = [clients EXCEPT ![dst] = [alive |-> TRUE, pimpl |-> clients[src].pimpl],
                                  ![src] = [alive |-> TRUE, pimpl |-> NULL]]
    /\ UNCHANGED <<phase, initCalls, cleanupCalls, libReady, impls, call, response>>

\* HttpClient::operator=(HttpClient&&): the target's Impl is deleted and the
\* source's pimpl taken
MoveAssign(dst, src) ==
    /\ phase = "main"
    /\ call[MainThread].pc = "idle"
    /\ dst # src
    /\ clients[dst].alive
    /\ clients[src].alive
    /\ clients' = [clients EXCEPT ![dst] = [alive |-> TRUE, pimpl |-> clients[src].pimpl],
                                  ![src] = [alive |-> TRUE, pimpl |-> NULL]]
    /\ impls' = IF clients[dst].pimpl # NULL
                THEN [impls EXCEPT ![clients[dst].pimpl] = NoImpl]
                ELSE impls
    /\ UNCHANGED <<phase, initCalls, cleanupCalls, libReady, call, response>>

---------------------------------------------------------------------------
(* get and post *)

\* the sets of failing iterations of build_headers' loop
FailSets(headers) == SUBSET (1 .. Cardinality(DOMAIN headers))

\* raw POST body lengths offered: around the guard's limit and the extremes
BodyLengths == {0, LONG_MAX, LONG_MAX + 1, MaxBodyLen}

\* pimpl->performRequest(...) on the main thread, up to curl_easy_perform
StartCall(t, c, req, easyInitFails, failAt, mimeInitFails, addpartFails) ==
    /\ clients[c].alive
    /\ clients[c].pimpl # NULL
    /\ call' = [call EXCEPT ![t] =
                   performRequest_begin(t, impls[clients[c].pimpl], req,
                                        easyInitFails, failAt, mimeInitFails, addpartFails)]
    /\ response' = [response EXCEPT ![t] = FreshResponse]
    /\ UNCHANGED <<phase, initCalls, cleanupCalls, libReady, clients, impls>>

\* HttpClient::get, called by one of main's tests
Get(c, url, headers, easyInitFails, failAt) ==
    /\ phase = "main"
    /\ call[MainThread].pc = "idle"
    /\ StartCall(MainThread, c, GetRequest(url, headers), easyInitFails, failAt, FALSE, {})

\* HttpClient::post(url, body, headers), called by one of main's tests
PostBody(c, url, body, headers, easyInitFails, failAt) ==
    /\ phase = "main"
    /\ call[MainThread].pc = "idle"
    /\ StartCall(MainThread, c, PostBodyRequest(url, body, headers),
                 easyInitFails, failAt, FALSE, {})

\* HttpClient::post(url, formParts, headers), called by one of main's tests
PostForm(c, url, parts, headers, easyInitFails, failAt, mimeInitFails, addpartFails) ==
    /\ phase = "main"
    /\ call[MainThread].pc = "idle"
    /\ StartCall(MainThread, c, PostFormRequest(url, parts, headers),
                 easyInitFails, failAt, mimeInitFails, addpartFails)

\* (mutant) get and post test pimpl and throw CurlException when it is null
CallMovedFrom_checked(c) ==
    /\ phase = "main"
    /\ call[MainThread].pc = "idle"
    /\ clients[c].alive
    /\ clients[c].pimpl = NULL
    /\ call' = [call EXCEPT ![MainThread] =
                    [IdleCall EXCEPT !.pc = "done", !.outcome = "CurlException",
                                     !.what = "HttpClient has been moved from"]]
    /\ UNCHANGED <<phase, initCalls, cleanupCalls, libReady, clients, impls, response>>

\* get or post on a moved-from HttpClient: pimpl->performRequest is called
\* with a null this, with no test before it.  performRequest reads m_config
\* through it, at the very start of the null Impl; the read faults and the
\* process dies inside the call, which therefore returns nothing and throws
\* nothing.
CallMovedFrom(c) ==
    /\ phase = "main"
    /\ call[MainThread].pc = "idle"
    /\ clients[c].alive
    /\ clients[c].pimpl = NULL
    /\ phase' = "terminated"
    /\ call' = [call EXCEPT ![MainThread] =
                    [IdleCall EXCEPT !.pc = "crashed", !.outcome = "SIGSEGV"]]
    /\ UNCHANGED <<initCalls, cleanupCalls, libReady, clients, impls, response>>

\* test_thread_safety: a const HttpClient and num_threads threads
SpawnThreads ==
    /\ phase = "main"
    /\ call[MainThread].pc = "idle"
    /\ \A c \in ClientIds : ~clients[c].alive
    /\ phase' = "threads"
    /\ clients' = [clients EXCEPT ![1] = [alive |-> TRUE, pimpl |-> 1]]
    /\ impls' = [impls EXCEPT ![1] = DefaultConfig]
    /\ call' = [t \in Threads |-> IF t \in Workers THEN [IdleCall EXCEPT !.pc = "ready"]
                                  ELSE call[t]]
    /\ UNCHANGED <<initCalls, cleanupCalls, libReady, response>>

\* the body of worker t: client.get("https://httpbin.org/get?thread=" + t)
WorkerGet(t, easyInitFails) ==
    /\ phase \in {"threads", "joined", "static_destroy"}
    /\ t \in Workers
    /\ call[t].pc = "ready"
    /\ StartCall(t, 1, GetRequest(ThreadUrl(t), EmptyMap), easyInitFails, {}, FALSE, {})

\* the caller takes the outcome: the tests catch CurlException only, any
\* other exception ends the process (std::terminate)
Observe(t) ==
    /\ phase \in {"main", "threads", "joined", "static_destroy"}
    /\ call[t].pc = "done"
    /\ IF call[t].outcome \in {"response", "CurlException"}
       THEN /\ call' = [call EXCEPT ![t] =
                           IF t = MainThread THEN IdleCall
                           ELSE [IdleCall EXCEPT !.pc = "finished"]]
            /\ phase' = phase
       ELSE /\ call' = call
            /\ phase' = "terminated"
    /\ UNCHANGED <<initCalls, cleanupCalls, libReady, clients, impls, response>>

\* (mutant) the threads are not joined before the test returns
JoinThreads_detached ==
    /\ phase = "threads"
    /\ phase' = "joined"
    /\ UNCHANGED <<initCalls, cleanupCalls, libReady, clients, impls, call, response>>

\* for (auto& t : threads) t.join(); then the test's client goes out of scope
JoinThreads ==
    /\ phase = "threads"
    /\ \A t \in Workers : call[t].pc = "finished"
    /\ phase' = "joined"
    /\ call' = [t \in Threads |-> IdleCall]
    /\ clients' = [clients EXCEPT ![1] = [alive |-> FALSE, pimpl |-> NULL]]
    /\ impls' = [impls EXCEPT ![1] = NoImpl]
    /\ UNCHANGED <<initCalls, cleanupCalls, libReady, response>>

\* main returns 0
MainReturn ==
    /\ phase = "joined"
    /\ phase' = "static_destroy"
    /\ UNCHANGED <<initCalls, cleanupCalls, libReady, clients, impls, call, response>>

\* ~CurlGlobalInitializer, run after main returned
StaticDestroy ==
    /\ phase = "static_destroy"
    /\ cleanupCalls' = cleanupCalls + 1
    /\ libReady' = FALSE
    /\ phase' = "exited"
    /\ UNCHANGED <<initCalls, clients, impls, call, response>>

---------------------------------------------------------------------------
(* curl_easy_perform: the engine's steps between its call and its return *)

Alive == phase \in {"main", "threads", "joined", "static_destroy"}

Performing(t) == Alive /\ call[t].pc = "perform"

\* a timeout set on the handle has run out (0 sets none)
Expired(c) ==
    \/ c.curl.TIMEOUT_MS > 0 /\ c.elapsed >= c.curl.TIMEOUT_MS
    \/ c.stage = "connecting" /\ c.curl.CONNECTTIMEOUT_MS > 0
       /\ c.elapsed >= c.curl.CONNECTTIMEOUT_MS

\* (mutant) the call leaves the client's configuration reset to the defaults
PerformReturns_resetconfig(t, res) ==
    /\ call' = [call EXCEPT ![t] = performRequest_finish(call[t], response[t], res)]
    /\ response' = [response EXCEPT ![t] = FreshResponse]
    /\ impls' = [i \in ImplIds |-> IF impls[i] = NoImpl THEN NoImpl ELSE DefaultConfig]
    /\ UNCHANGED <<phase, initCalls, cleanupCalls, libReady, clients>>

\* the remainder of performRequest once curl_easy_perform returned res
PerformReturns(t, res) ==
    /\ call' = [call EXCEPT ![t] = performRequest_finish(call[t], response[t], res)]
    /\ response' = [response EXCEPT ![t] = FreshResponse]
    /\ UNCHANGED <<phase, initCalls, cleanupCalls, libReady, clients, impls>>

\* the instants, in milliseconds since curl_easy_perform was entered, at
\* which something changes for the transfer: its timeouts and the moment the
\* server starts to answer
Instants(c) ==
    {c.curl.TIMEOUT_MS, Exchange(c.curl).delayMs}
        \cup (IF c.stage = "connecting" THEN {c.curl.CONNECTTIMEOUT_MS} ELSE {})

Later(c) == {i \in Instants(c) : i > c.elapsed}

\* time passes for the transfer of thread t, up to the next such instant
EngineTick(t) ==
    /\ Performing(t)
    /\ ~Expired(call[t])
    /\ Later(call[t]) # {}
    /\ call' = [call EXCEPT ![t].elapsed =
                   CHOOSE i \in Later(call[t]) : \A j \in Later(call[t]) : i <= j]
    /\ UNCHANGED <<phase, initCalls, cleanupCalls, libReady, clients, impls, response>>

\* the connection (and the TLS handshake) to the handle's URL is made
EngineConnect(t) ==
    /\ Performing(t)
    /\ ~Expired(call[t])
    /\ call[t].stage = "connecting"
    /\ Exchange(call[t].curl).reachable
    /\ Exchange(call[t].curl).tlsOk
    /\ call' = [call EXCEPT ![t].stage = "receiving"]
    /\ UNCHANGED <<phase, initCalls, cleanupCalls, libReady, clients, impls, response>>

\* the engine calls CURLOPT_HEADERFUNCTION for header line `line` of the
\* transfer of thread t, with CURLOPT_HEADERDATA as userdata; a return value
\* other than the line's size aborts the transfer with CURLE_WRITE_ERROR.
\* badAlloc: an allocation in the callback fails, and as the callback catches
\* nothing the exception leaves it into the engine's C frames, where it
\* either unwinds on to performRequest's caller or ends the process
HeaderLineArrives(t, line, badAlloc, unwinds) ==
    LET userdata == call[t].curl.HEADERDATA
    IN  IF userdata = NoFrame
        THEN PerformReturns(t, "CURLE_WRITE_ERROR")
        ELSE IF ~badAlloc
        THEN LET r == headerCallbackResult(response[userdata].headers, line)
             IN  IF r.ret # Len(line)
                 THEN PerformReturns(t, "CURLE_WRITE_ERROR")
                 ELSE /\ response' = [response EXCEPT ![userdata].headers = r.headers]
                      /\ call' = [call EXCEPT ![t].nLines = @ + 1,
                                              ![t].lines = Append(@, line),
                                              ![t].lineRets = Append(@, r.ret)]
                      /\ UNCHANGED <<phase, initCalls, cleanupCalls, libReady,
                                     clients, impls>>
        ELSE IF unwinds
        THEN /\ call' = [call EXCEPT ![t] =
                            Unwind([call[t] EXCEPT !.lines = Append(@, line), !.oom = TRUE],
                                   "std::bad_alloc")]
             /\ response' = [response EXCEPT ![t] = FreshResponse]
             /\ UNCHANGED <<phase, initCalls, cleanupCalls, libReady, clients, impls>>
        ELSE /\ phase' = "terminated"
             /\ call' = [call EXCEPT ![t].lines = Append(@, line), ![t].oom = TRUE]
             /\ UNCHANGED <<initCalls, cleanupCalls, libReady, clients, impls, response>>

\* the server behind the handle's URL sends its next header line
EngineHeaderLine(t, badAlloc, unwinds) ==
    /\ Performing(t)
    /\ ~Expired(call[t])
    /\ call[t].stage = "receiving"
    /\ call[t].elapsed >= Exchange(call[t].curl).delayMs
    /\ call[t].nLines < Len(Exchange(call[t].curl).lines)
    /\ HeaderLineArrives(t, Exchange(call[t].curl).lines[call[t].nLines + 1],
                         badAlloc, unwinds)

\* what writeCallback returns and leaves in the body: total_size and the body
\* with the chunk appended, or 0 and the body as it was when append throws
writeCallbackResult(responseBody, chunk, badAlloc) ==
    IF badAlloc
    THEN [ret |-> 0, body |-> responseBody]
    ELSE [ret |-> Len(chunk), body |-> writeCallback(responseBody, chunk)]

\* the engine calls CURLOPT_WRITEFUNCTION for body chunk `chunk` of the
\* transfer of thread t, with CURLOPT_WRITEDATA as userdata; a return value
\* other than the chunk's size aborts the transfer with CURLE_WRITE_ERROR
BodyChunkArrives(t, chunk, badAlloc) ==
    LET userdata == call[t].curl.WRITEDATA
    IN  /\ badAlloc => Len(chunk) > 0
        /\ IF userdata = NoFrame
           THEN PerformReturns(t, "CURLE_WRITE_ERROR")
           ELSE LET r == writeCallbackResult(response[userdata].body, chunk, badAlloc)
                    c == [call[t] EXCEPT !.chunks = Append(@, chunk),
                                         !.chunkRets = Append(@, r.ret),
                                         !.oom = badAlloc]
                IN  IF r.ret # Len(chunk)
                    THEN /\ call' = [call EXCEPT ![t] =
                                        performRequest_finish(c, response[t], "CURLE_WRITE_ERROR")]
                         /\ response' = [response EXCEPT ![t] = FreshResponse]
                         /\ UNCHANGED <<phase, initCalls, cleanupCalls, libReady,
                                        clients, impls>>
                    ELSE /\ response' = [response EXCEPT ![userdata].body = r.body]
                         /\ call' = [call EXCEPT ![t] = [c EXCEPT !.nChunks = @ + 1]]
                         /\ UNCHANGED <<phase, initCalls, cleanupCalls, libReady,
                                        clients, impls>>

\* the server behind the handle's URL sends its next body chunk
EngineBodyChunk(t, badAlloc) ==
    /\ Performing(t)
    /\ ~Expired(call[t])
    /\ call[t].stage = "receiving"
    /\ call[t].elapsed >= Exchange(call[t].curl).delayMs
    /\ call[t].nLines = Len(Exchange(call[t].curl).lines)
    /\ call[t].nChunks < Len(Exchange(call[t].curl).chunks)
    /\ BodyChunkArrives(t, Exchange(call[t].curl).chunks[call[t].nChunks + 1], badAlloc)

\* the whole response has arrived: curl_easy_perform returns CURLE_OK
TransferCompletes(t) ==
    /\ Performing(t)
    /\ ~Expired(call[t])
    /\ call[t].stage = "receiving"
    /\ call[t].nLines = Len(Exchange(call[t].curl).lines)
    /\ call[t].nChunks = Len(Exchange(call[t].curl).chunks)
    /\ call[t].elapsed >= Exchange(call[t].curl).delayMs
    /\ PerformReturns(t, IF call[t].curl.FAILONERROR = 1
                            /\ Exchange(call[t].curl).status >= 400
                         THEN "CURLE_HTTP_RETURNED_ERROR" ELSE "CURLE_OK")

\* the transfer fails: no connection, a certificate that does not validate,
\* or a broken connection
TransferFails(t, res) ==
    /\ Performing(t)
    /\ ~Expired(call[t])
    /\ \/ res = "CURLE_COULDNT_CONNECT" /\ call[t].stage = "connecting"
       \/ res = "CURLE_PEER_FAILED_VERIFICATION" /\ call[t].stage = "connecting"
          /\ Exchange(call[t].curl).reachable /\ ~Exchange(call[t].curl).tlsOk
       \/ res = "CURLE_RECV_ERROR" /\ call[t].stage = "receiving"
    /\ PerformReturns(t, res)

\* a timeout of the handle has run out: curl_easy_perform returns
\* CURLE_OPERATION_TIMEDOUT
TransferTimesOut(t) ==
    /\ Performing(t)
    /\ Expired(call[t])
    /\ PerformReturns(t, "CURLE_OPERATION_TIMEDOUT")

---------------------------------------------------------------------------

TransportErrors == {"CURLE_COULDNT_CONNECT", "CURLE_PEER_FAILED_VERIFICATION", "CURLE_RECV_ERROR"}

\* the steps of the engine and of the callers, for every thread
Transfer ==
    \/ \E t \in Threads : Observe(t)
    \/ \E t \in Threads : EngineTick(t)
    \/ \E t \in Threads : EngineConnect(t)
    \/ \E t \in Threads, badAlloc \in BOOLEAN, unwinds \in BOOLEAN :
          EngineHeaderLine(t, badAlloc, unwinds)
    \/ \E t \in Threads, badAlloc \in BOOLEAN : EngineBodyChunk(t, badAlloc)
    \/ \E t \in Threads : TransferCompletes(t)
    \/ \E t \in Threads, res \in TransportErrors : TransferFails(t, res)
    \/ \E t \in Threads : TransferTimesOut(t)

\* The whole process.  main's tests send custom headers, raw bodies and
\* form parts to httpbin's echo URLs, and plain gets to the others.
Next ==
    \/ \E ok \in BOOLEAN, rev \in GuardRevisions : StaticInit(ok, rev)
    \/ \E c \in ClientIds, config \in Configs : Construct(c, config)
    \/ \E c \in ClientIds : Destroy(c)
    \/ \E dst \in ClientIds, src \in ClientIds : MoveConstruct(dst, src)
    \/ \E dst \in ClientIds, src \in ClientIds : MoveAssign(dst, src)
    \/ \E c \in ClientIds, url \in MainUrls, easyInitFails \in BOOLEAN :
          Get(c, url, EmptyMap, easyInitFails, {})
    \/ \E c \in ClientIds, body \in {0, MaxBodyLen}, easyInitFails \in BOOLEAN :
          PostBody(c, UrlPost, body, EmptyMap, easyInitFails, {})
    \/ \E c \in ClientIds, parts \in FormPartLists, easyInitFails \in BOOLEAN,
          mimeInitFails \in BOOLEAN :
          PostForm(c, UrlPost, parts, EmptyMap, easyInitFails, {}, mimeInitFails, {})
    \/ \E c \in ClientIds : CallMovedFrom(c)
    \/ SpawnThreads
    \/ \E t \in Workers, easyInitFails \in BOOLEAN : WorkerGet(t, easyInitFails)
    \/ JoinThreads
    \/ MainReturn
    \/ StaticDestroy
    \/ Transfer

Spec == Init /\ [][Next]_vars

---------------------------------------------------------------------------
(* One client on the main thread, with every request the methods accept *)

CallInit ==
    /\ phase = "main"
    /\ initCalls = 1
    /\ cleanupCalls = 0
    /\ libReady \in BOOLEAN
    /\ \E config \in Configs :
          /\ clients = [c \in ClientIds |->
                           IF c = 1 THEN [alive |-> TRUE, pimpl |-> 1]
                           ELSE [alive |-> FALSE, pimpl |-> NULL]]
          /\ impls = [i \in ImplIds |-> IF i = 1 THEN config ELSE NoImpl]
    /\ call = [t \in Threads |-> IdleCall]
    /\ response = [t \in Threads |-> FreshResponse]

CallNext ==
    \/ \E url \in CallUrls, headers \in HeaderMaps, easyInitFails \in BOOLEAN :
          \E failAt \in FailSets(headers) : Get(1, url, headers, easyInitFails, failAt)
    \/ \E url \in CallUrls, body \in BodyLengths, headers \in HeaderMaps,
          easyInitFails \in BOOLEAN :
          \E failAt \in FailSets(headers) : PostBody(1, url, body, headers, easyInitFails, failAt)
    \/ \E url \in CallUrls, parts \in FormPartLists, headers \in HeaderMaps,
          easyInitFails \in BOOLEAN, mimeInitFails \in BOOLEAN :
          \E failAt \in FailSets(headers), addpartFails \in SUBSET (1 .. Len(parts)) :
             PostForm(1, url, parts, headers, easyInitFails, failAt, mimeInitFails,
                      addpartFails)
    \/ Transfer

CallSpec == CallInit /\ [][CallNext]_vars

\* The engine's clock runs and the engine enforces the timeouts set on the
\* handle: the two steps that no peer and no network can hold back.
LiveCallSpec ==
    /\ CallSpec
    /\ \A t \in Threads : WF_vars(EngineTick(t)) /\ WF_vars(TransferTimesOut(t))

---------------------------------------------------------------------------
(* The callbacks under whatever a server may send *)

\* the longest raw header line offered to headerCallback
MaxLineLen == 3
\* the longest name and the longest value of a formatted header
MaxNameLen == 2
\* the most callbacks of one transfer
MaxCallbacks == 3

LineAlphabet == {"A", "j", ":", " ", "\t", "\r", "\n"}

\* the strings over an alphabet of length at most n
RECURSIVE Strings(_, _)
Strings(alphabet, n) ==
    IF n = 0 THEN { << >> }
    ELSE LET shorter == Strings(alphabet, n - 1)
         IN  shorter \cup {Append(x, a) : x \in {y \in shorter : Len(y) = n - 1},
                                            a \in alphabet}

CRLF == <<"\r", "\n">>

\* names without colon or surrounding blanks, values without surrounding
\* blanks, CR or LF, and the lines "name: value\r\n" made of them
Names ==
    {x \in Strings(LineAlphabet, MaxNameLen) :
        /\ \A i \in 1 .. Len(x) : x[i] # ":"
        /\ x # << >> => x[1] \notin HT /\ x[Len(x)] \notin HT}
Values ==
    {x \in Strings(LineAlphabet, MaxNameLen) :
        x # << >> => x[1] \notin HTCRLF /\ x[Len(x)] \notin HTCRLF}
WellFormedLines == {HeaderString(n, v) \o CRLF : n \in Names, v \in Values}

\* every raw line up to MaxLineLen, and the well-formed ones
RawLines == Strings(LineAlphabet, MaxLineLen) \cup WellFormedLines

\* a status line, the blank line that ends a header block, and header lines
\* that repeat a name, pad it, change its case and leave its value empty
EchoLines ==
    { <<"H", " ", "2", "\r", "\n">>,
      CRLF,
      <<"H", ":", "j", "\r", "\n">>,
      <<" ", "H", " ", ":", "b", "\r", "\n">>,
      <<"h", ":", " ", "j", "\r", "\n">>,
      <<"H", ":", "\r", "\n">> }

\* body chunks, one of them of zero length
EchoChunks == { << >>, <<"u">>, <<"j", "n">> }

\* a get on the main thread whose transfer is connected and about to receive
ReceivingInit ==
    /\ phase = "main"
    /\ initCalls = 1
    /\ cleanupCalls = 0
    /\ libReady = TRUE
    /\ clients = [c \in ClientIds |->
                     IF c = 1 THEN [alive |-> TRUE, pimpl |-> 1]
                     ELSE [alive |-> FALSE, pimpl |-> NULL]]
    /\ impls = [i \in ImplIds |-> IF i = 1 THEN DefaultConfig ELSE NoImpl]
    /\ call = [t \in Threads |->
                  IF t = MainThread
                  THEN [performRequest_begin(t, DefaultConfig, GetRequest(UrlGet, EmptyMap),
                                             FALSE, {}, FALSE, {})
                           EXCEPT !.stage = "receiving"]
                  ELSE IdleCall]
    /\ response = [t \in Threads |-> FreshResponse]

\* the engine passes one raw line to headerCallback
ParseLine(header) ==
    /\ Performing(MainThread)
    /\ call[MainThread].stage = "receiving"
    /\ call[MainThread].lines = << >>
    /\ HeaderLineArrives(MainThread, header, FALSE, FALSE)

ParseNext == \E header \in RawLines : ParseLine(header)

ParseSpec == ReceivingInit /\ [][ParseNext]_vars

\* the engine passes a header line, in any position of the transfer
AnyHeaderLine(line, badAlloc, unwinds) ==
    /\ Performing(MainThread)
    /\ call[MainThread].stage = "receiving"
    /\ Len(call[MainThread].lines) + Len(call[MainThread].chunks) < MaxCallbacks
    /\ HeaderLineArrives(MainThread, line, badAlloc, unwinds)

\* the engine passes a body chunk, in any position of the transfer
AnyBodyChunk(chunk, badAlloc) ==
    /\ Performing(MainThread)
    /\ call[MainThread].stage = "receiving"
    /\ Len(call[MainThread].lines) + Len(call[MainThread].chunks) < MaxCallbacks
    /\ BodyChunkArrives(MainThread, chunk, badAlloc)

AccumNext ==
    \/ \E line \in EchoLines, badAlloc \in BOOLEAN, unwinds \in BOOLEAN :
          AnyHeaderLine(line, badAlloc, unwinds)
    \/ \E chunk \in EchoChunks, badAlloc \in BOOLEAN : AnyBodyChunk(chunk, badAlloc)

AccumSpec == ReceivingInit /\ [][AccumNext]_vars

---------------------------------------------------------------------------
(* Properties *)

\* a performRequest activation exists in frame t
Started(t) == call[t].pc \in {"perform", "done"}
Ended(t) == call[t].pc = "done"

\* how often resource r was released in activation c
ReleaseCount(c, r) == Cardinality({i \in 1 .. Len(c.freed) : c.freed[i] = r})

\* C1: when a get/post call that obtained a handle has returned or thrown,
\* every resource it acquired (handle, header list nodes, multipart
\* structure) has been released exactly once, and at no time has anything
\* been released twice or released without having been acquired.
C1_ReleasedExactlyOnce ==
    \A t \in Threads :
        /\ \A i \in 1 .. Len(call[t].freed) :
              /\ call[t].freed[i] \in call[t].allocated
              /\ ReleaseCount(call[t], call[t].freed[i]) = 1
        /\ Ended(t) => \A r \in call[t].allocated : ReleaseCount(call[t], r) = 1

\* C2: a call that has ended has either returned a Response, and then
\* curl_easy_perform returned CURLE_OK, or thrown CurlException; and when
\* curl_easy_perform returned an error the call threw CurlException with the
\* engine's description of that error and handed no Response to the caller.
C2_ResponseOrCurlException ==
    \A t \in Threads :
        Ended(t) =>
            /\ call[t].outcome \in {"response", "CurlException"}
            /\ call[t].outcome = "response" => call[t].res = "CURLE_OK"
            /\ call[t].res \notin {"none", "CURLE_OK"} =>
                  /\ call[t].outcome = "CurlException"
                  /\ call[t].what = "curl_easy_perform() failed: "
                                       \o curl_easy_strerror(call[t].res)
                  /\ call[t].result = FreshResponse

\* the header map the header lines build, fed in order to headerCallback
RECURSIVE HeadersOf(_)
HeadersOf(lines) ==
    IF lines = << >> THEN EmptyMap
    ELSE headerCallback(HeadersOf(SubSeq(lines, 1, Len(lines) - 1)), lines[Len(lines)])

\* C3: at every moment of a transfer the frame's response holds exactly what
\* the engine delivered to that transfer so far (of the answer to its own
\* URL), and a returned Response holds exactly the whole answer to the
\* call's own URL: nothing of another call's transfer, concurrent or earlier.
C3_NoCrossContamination ==
    \A t \in Threads :
        LET own == Server(call[t].req.url)
        IN  /\ call[t].pc = "perform" =>
                  /\ response[t].body = Concat(SubSeq(own.chunks, 1, call[t].nChunks))
                  /\ response[t].headers = HeadersOf(SubSeq(own.lines, 1, call[t].nLines))
            /\ (Ended(t) /\ call[t].outcome = "response") =>
                  /\ call[t].result.body = Concat(own.chunks)
                  /\ call[t].result.headers = HeadersOf(own.lines)

\* two workers' transfers overlap: one has returned its Response while the
\* other is in the middle of receiving its own
C3_Witness ==
    \E t1 \in Workers, t2 \in Workers :
        /\ t1 # t2
        /\ Ended(t1) /\ call[t1].outcome = "response" /\ call[t1].result.body # << >>
        /\ call[t2].pc = "perform" /\ call[t2].nChunks > 0

\* C4: curl_global_init and curl_global_cleanup each run at most once; while
\* main runs, whatever clients are constructed, moved and destroyed and
\* whatever calls are made, the count stays at one initialisation and no
\* cleanup, and a process that has exited ran each exactly once.
C4_GlobalInitOnce ==
    /\ initCalls <= 1
    /\ cleanupCalls <= 1
    /\ phase \in {"main", "threads", "joined", "static_destroy"} =>
          initCalls = 1 /\ cleanupCalls = 0
    /\ phase = "exited" => initCalls = 1 /\ cleanupCalls = 1

\* two clients exist, one of them moved from, after one initialisation
C4_Witness ==
    /\ initCalls = 1
    /\ cleanupCalls = 0
    /\ \E c1 \in ClientIds, c2 \in ClientIds :
          /\ clients[c1].alive /\ clients[c1].pimpl = NULL
          /\ clients[c2].alive /\ clients[c2].pimpl # NULL

C6_InitFailureTerminates ==
    (initCalls = 1 /\ ~libReady /\ cleanupCalls = 0) =>
        /\ phase = "terminated"
        /\ \A t \in Threads : ~Started(t)

\* C7: a post with a raw body that obtained a handle throws CurlException
\* without curl_easy_perform being entered when the body's length exceeds
\* LONG_MAX, and otherwise has the body attached with its exact length and
\* goes on to the transfer.
C7_OversizeBodyGuard ==
    \A t \in Threads :
        (Started(t) /\ call[t].req.op = "post_body" /\ EasyRes \in call[t].allocated) =>
            IF call[t].req.postBody > LONG_MAX
            THEN /\ Ended(t)
                 /\ call[t].outcome = "CurlException"
                 /\ call[t].what = "POST body is too large to be handled by libcurl."
                 /\ call[t].performs = 0
                 /\ call[t].res = "none"
            ELSE /\ call[t].curl.POSTFIELDS = t
                 /\ call[t].curl.POSTFIELDSIZE = call[t].req.postBody
                 /\ call[t].performs = 1

\* a post whose body is one byte longer than LONG_MAX was refused
C7_Witness ==
    \E t \in Threads :
        /\ Ended(t)
        /\ call[t].req.postBody = LONG_MAX + 1
        /\ EasyRes \in call[t].allocated
        /\ call[t].outcome = "CurlException"
        /\ call[t].performs = 0

\* the engine gave the call no handle / no multipart structure
NoHandleGiven(t) == EasyRes \notin call[t].allocated
NoMimeGiven(t) == call[t].req.hasParts /\ EasyRes \in call[t].allocated
                  /\ MimeRes \notin call[t].allocated

\* C8: a call for which curl_easy_init or curl_mime_init failed has thrown
\* CurlException and has never entered curl_easy_perform.
C8_InitFailuresThrowBeforePerform ==
    \A t \in Threads :
        (Started(t) /\ (NoHandleGiven(t) \/ NoMimeGiven(t))) =>
            /\ Ended(t)
            /\ call[t].outcome = "CurlException"
            /\ call[t].what = IF NoHandleGiven(t) THEN "Failed to create CURL easy handle."
                              ELSE "curl_mime_init() failed."
            /\ call[t].performs = 0
            /\ call[t].res = "none"

\* a multipart post whose curl_mime_init failed has thrown
C8_Witness ==
    \E t \in Threads :
        /\ Ended(t)
        /\ NoMimeGiven(t)
        /\ call[t].req.formParts # << >>
        /\ call[t].outcome = "CurlException"

\* handle creation and configuration succeeded in frame t
Configured(t) ==
    /\ EasyRes \in call[t].allocated
    /\ call[t].req.hasParts => MimeRes \in call[t].allocated
    /\ call[t].req.postBody # NoBody => call[t].req.postBody <= LONG_MAX

\* C9: a call enters curl_easy_perform once when handle creation and
\* configuration succeeded and never otherwise; in particular a call that
\* ended after a failed transfer entered it once only.
C9_PerformAtMostOnce ==
    \A t \in Threads :
        Started(t) => call[t].performs = IF Configured(t) THEN 1 ELSE 0

\* a call has ended with a failed transfer, performed once
C9_Witness ==
    \E t \in Threads :
        /\ Ended(t)
        /\ call[t].res = "CURLE_COULDNT_CONNECT"
        /\ call[t].performs = 1

\* the timeouts of the client the calls are made on are both set
TimeoutsSet(m_config) == m_config.connectTimeoutMs > 0 /\ m_config.requestTimeoutMs > 0

\* C10: on a client whose connectTimeoutMs and requestTimeoutMs are both
\* positive, every call that entered curl_easy_perform leaves it again
\* (or the process has ended), and a call that returned a Response reached
\* its target and completed before requestTimeoutMs had run out.
C10_TimeoutsBoundTheCall ==
    /\ [](\A t \in Threads :
            (TimeoutsSet(impls[1]) /\ Ended(t) /\ call[t].outcome = "response") =>
                /\ Server(call[t].req.url).reachable
                /\ call[t].elapsed < impls[1].requestTimeoutMs)
    /\ \A t \in Threads :
          (TimeoutsSet(impls[1]) /\ call[t].pc = "perform")
              ~> (call[t].pc # "perform" \/ phase = "terminated")

\* the call to the endpoint that answers after DelayMs, on the client with
\* the shorter request timeout, has ended with the engine's timeout error
C10_Witness ==
    \E t \in Threads :
        /\ Ended(t)
        /\ impls[1].requestTimeoutMs = TestRequestTimeoutMs
        /\ call[t].req.url = UrlDelay
        /\ call[t].res = "CURLE_OPERATION_TIMEDOUT"
        /\ call[t].outcome = "CurlException"

\* C11: the statusCode of every returned Response is the response code of
\* the completed transfer to the call's URL, never the value the local
\* response held before the read-back.
C11_StatusCodeReadBack ==
    \A t \in Threads :
        (Ended(t) /\ call[t].outcome = "response") =>
            /\ call[t].result.statusCode = Server(call[t].req.url).status
            /\ call[t].result.statusCode # Indeterminate

\* a get has returned the Response of a transfer that ended with code 404
C11_Witness ==
    \E t \in Threads :
        /\ Ended(t)
        /\ call[t].outcome = "response"
        /\ call[t].req.url = UrlNotFound
        /\ call[t].result.statusCode = 404

\* the one raw line the parser was given, once it was given one
ParsedLine(t) == call[t].lines # << >> /\ call[t].lineRets # << >>
TheLine(t) == call[t].lines[1]

ColonCount(x) == Cardinality({i \in 1 .. Len(x) : x[i] = ":"})

\* x has no blank at its ends and no CR or LF at its end
Stripped(x) == x # << >> => x[1] \notin HT /\ x[Len(x)] \notin HTCRLF

\* C12: after the parser was given a raw line that contains a colon, the
\* name and the value it stored have no leading or trailing space or tab and
\* no trailing CR or LF.
C12_PairIsStripped ==
    \A t \in Threads :
        (ParsedLine(t) /\ ColonCount(TheLine(t)) > 0) =>
            \A k \in DOMAIN response[t].headers :
                Stripped(k) /\ Stripped(response[t].headers[k])

\* C13: after the parser was given the line name + ": " + value + "\r\n" of a
\* well-formed name and value, the map holds exactly the pair (name, value),
\* and formatting that pair in the same way and parsing it again gives the
\* same map.
C13_ParseFormatRoundTrip ==
    \A t \in Threads :
        (ParsedLine(t) /\ TheLine(t) \in WellFormedLines) =>
            /\ Cardinality(DOMAIN response[t].headers) = 1
            /\ \A k \in DOMAIN response[t].headers :
                  /\ k \in Names
                  /\ response[t].headers[k] \in Values
                  /\ HeaderString(k, response[t].headers[k]) \o CRLF = TheLine(t)
                  /\ headerCallback(EmptyMap, HeaderString(k, response[t].headers[k]) \o CRLF)
                        = response[t].headers

\* the line "Aj: :j\r\n" was parsed to the pair ("Aj", ":j")
C13_Witness ==
    \E t \in Threads :
        /\ ParsedLine(t)
        /\ TheLine(t) = <<"A", "j", ":", " ", ":", "j", "\r", "\n">>
        /\ response[t].headers = [k \in { <<"A", "j">> } |-> <<":", "j">>]

\* x is s without its leading characters of lead and, of what is left,
\* without its trailing characters of trail
TrimOf(x, s, lead, trail) ==
    \E i \in 1 .. Len(s) + 1 : \E j \in (i - 1) .. Len(s) :
        /\ x = SubSeq(s, i, j)
        /\ \A q \in 1 .. (i - 1) : s[q] \in lead
        /\ \A q \in (j + 1) .. Len(s) : s[q] \in trail
        /\ x # << >> => x[1] \notin lead /\ x[Len(x)] \notin trail

\* C14: after the parser was given a line with several colons, the stored
\* name is the (trimmed) text before the first colon and the stored value is
\* the (trimmed) whole text after it, with all the later colons in it.
C14_SplitAtFirstColon ==
    \A t \in Threads :
        (ParsedLine(t) /\ ColonCount(TheLine(t)) > 1) =>
            \E p \in 1 .. Len(TheLine(t)) :
                /\ TheLine(t)[p] = ":"
                /\ \A q \in 1 .. (p - 1) : TheLine(t)[q] # ":"
                /\ Cardinality(DOMAIN response[t].headers) = 1
                /\ \A k \in DOMAIN response[t].headers :
                      /\ TrimOf(k, SubSeq(TheLine(t), 1, p - 1), HT, HT)
                      /\ TrimOf(response[t].headers[k],
                                SubSeq(TheLine(t), p + 1, Len(TheLine(t))), HT, HTCRLF)
                      /\ ColonCount(k) = 0
                      /\ ColonCount(response[t].headers[k]) = ColonCount(TheLine(t)) - 1

\* the line "A::" was parsed to the pair ("A", ":")
C14_Witness ==
    \E t \in Threads :
        /\ ParsedLine(t)
        /\ TheLine(t) = <<"A", ":", ":">>
        /\ response[t].headers = [k \in { <<"A">> } |-> <<":">>]

\* C15: a header callback that ran to its end for a line without a colon
\* leaves the header map as it was, reports the whole line as consumed, and
\* the transfer goes on.
C15_NoColonNoPair ==
    [][\A t \in Threads :
          (/\ Len(call'[t].lines) = Len(call[t].lines) + 1
           /\ ColonCount(call'[t].lines[Len(call'[t].lines)]) = 0
           /\ ~call'[t].oom)
          => /\ response'[t].headers = response[t].headers
             /\ call'[t].lineRets =
                   Append(call[t].lineRets, Len(call'[t].lines[Len(call'[t].lines)]))
             /\ call'[t].pc = "perform"]_vars

\* a header, then the blank line ending the block: the map still holds the
\* header and both lines were reported as consumed
C15_Witness ==
    \E t \in Threads :
        /\ call[t].pc = "perform"
        /\ call[t].lines = << <<"H", ":", "j", "\r", "\n">>, CRLF >>
        /\ call[t].lineRets = <<5, 2>>
        /\ response[t].headers = [k \in { <<"H">> } |-> <<"j">>]

\* the positions of the lines received so far that hold a pair named k
LinesNamed(t, k) ==
    {i \in 1 .. Len(call[t].lines) :
        ColonCount(call[t].lines[i]) > 0 /\ ParsedKey(call[t].lines[i]) = k}

\* C16: during a transfer (of a live process) the header map has an entry for exactly the names
\* parsed from the lines received so far, and the value of each is that of
\* the last line received with exactly that name.
C16_LastWriteWins ==
    \A t \in Threads :
        Performing(t) =>
            /\ DOMAIN response[t].headers =
                  {ParsedKey(call[t].lines[i]) :
                      i \in {j \in 1 .. Len(call[t].lines) : ColonCount(call[t].lines[j]) > 0}}
            /\ \A k \in DOMAIN response[t].headers :
                  \E i \in LinesNamed(t, k) :
                      /\ \A j \in LinesNamed(t, k) : j <= i
                      /\ response[t].headers[k] = ParsedValue(call[t].lines[i])

\* "H:j", " H :b" and "h: j" were received: H holds b, h holds j
C16_Witness ==
    \E t \in Threads :
        /\ call[t].pc = "perform"
        /\ call[t].lines = << <<"H", ":", "j", "\r", "\n">>,
                              <<" ", "H", " ", ":", "b", "\r", "\n">>,
                              <<"h", ":", " ", "j", "\r", "\n">> >>
        /\ response[t].headers =
              [k \in { <<"H">>, <<"h">> } |-> IF k = <<"H">> THEN <<"b">> ELSE <<"j">>]

\* C17: during a transfer the body is the concatenation, in arrival order,
\* of the chunks received so far (none, or chunks of length zero, included),
\* and every callback that appended its chunk returned the chunk's length; a
\* callback that returned anything else ended the transfer.
C17_BodyIsConcatenation ==
    \A t \in Threads :
        /\ call[t].pc = "perform" =>
              /\ response[t].body = Concat(call[t].chunks)
              /\ Len(call[t].chunkRets) = Len(call[t].chunks)
              /\ \A i \in 1 .. Len(call[t].chunks) :
                    call[t].chunkRets[i] = Len(call[t].chunks[i])
        /\ (\E i \in 1 .. Len(call[t].chunkRets) :
                call[t].chunkRets[i] # Len(call[t].chunks[i]))
              => Ended(t) /\ call[t].res = "CURLE_WRITE_ERROR"

\* "u", a chunk of length zero and "jn" were received: the body is "ujn"
C17_Witness ==
    \E t \in Threads :
        /\ call[t].pc = "perform"
        /\ call[t].chunks = << <<"u">>, << >>, <<"j", "n">> >>
        /\ call[t].chunkRets = <<1, 0, 2>>
        /\ response[t].body = <<"u", "j", "n">>

\* C18: a call in which a callback could not complete for lack of memory
\* has ended with CurlException (the engine aborted the transfer with
\* CURLE_WRITE_ERROR), returned no Response, and the process lives on.
C18_OutOfMemoryIsCurlException ==
    \A t \in Threads :
        call[t].oom =>
            /\ phase # "terminated"
            /\ Ended(t)
            /\ call[t].res = "CURLE_WRITE_ERROR"
            /\ call[t].outcome = "CurlException"
            /\ call[t].result = FreshResponse

\* the request the engine makes of the options set on a handle: a multipart
\* POST with CURLOPT_MIMEPOST, a POST with CURLOPT_POSTFIELDS, else a GET
RequestKind(curl) ==
    IF curl.MIMEPOST.live THEN "POST multipart/form-data"
    ELSE IF curl.POSTFIELDS # NoFrame THEN "POST"
    ELSE "GET"

\* C19: no request has both a raw body and form parts, and the request the
\* handle is configured for when curl_easy_perform is entered depends on the
\* method called only: get makes a GET without body, post(url, body) a POST
\* of the body even when it is empty, post(url, formParts) a multipart POST
\* even when there are no parts.
C19_KindFollowsOperation ==
    \A t \in Threads :
        /\ ~(call[t].req.hasParts /\ call[t].req.postBody # NoBody)
        /\ call[t].performs > 0 =>
              /\ call[t].req.op = "get" =>
                    /\ ~call[t].req.hasParts /\ call[t].req.postBody = NoBody
                    /\ RequestKind(call[t].curl) = "GET"
                    /\ call[t].curl.POSTFIELDS = NoFrame
                    /\ ~call[t].curl.MIMEPOST.live
              /\ call[t].req.op = "post_body" =>
                    /\ RequestKind(call[t].curl) = "POST"
                    /\ call[t].curl.POSTFIELDSIZE = call[t].req.postBody
              /\ call[t].req.op = "post_form" =>
                    RequestKind(call[t].curl) = "POST multipart/form-data"

\* a post with the empty string as body is in curl_easy_perform as a POST
C19_Witness ==
    \E t \in Threads :
        /\ call[t].pc = "perform"
        /\ call[t].req.op = "post_body"
        /\ call[t].req.postBody = 0
        /\ RequestKind(call[t].curl) = "POST"

\* C20: when curl_easy_perform is entered the header list set on the handle
\* has exactly one entry name + ": " + value for each entry of the caller's
\* map (and none is set for the empty map).
C20_HeaderListMatchesMap ==
    \A t \in Threads :
        call[t].performs > 0 =>
            /\ Len(call[t].curl.HTTPHEADER) = Cardinality(DOMAIN call[t].req.headers)
            /\ \A k \in DOMAIN call[t].req.headers :
                  \E i \in 1 .. Len(call[t].curl.HTTPHEADER) :
                      call[t].curl.HTTPHEADER[i] = HeaderString(k, call[t].req.headers[k])

\* C21: when curl_easy_perform is entered for a post with form parts, the
\* multipart structure set on the handle has one part per FormPart, in the
\* order given, each with the FormPart's name and either its text value or
\* its file path, and with a content type exactly when one was declared.
C21_OnePartPerFormPart ==
    \A t \in Threads :
        (call[t].performs > 0 /\ call[t].req.hasParts) =>
            /\ call[t].curl.MIMEPOST.live
            /\ Len(call[t].curl.MIMEPOST.parts) = Len(call[t].req.formParts)
            /\ \A i \in 1 .. Len(call[t].req.formParts) :
                  LET given == call[t].req.formParts[i]
                      part == call[t].curl.MIMEPOST.parts[i]
                  IN  /\ part.name = given.name
                      /\ given.kind = "text" =>
                            part.data = given.value /\ part.filedata = "" /\ part.type = nullopt
                      /\ given.kind = "file" =>
                            part.filedata = given.filePath /\ part.data = ""
                            /\ part.type = given.contentType

\* C22: no step of a get or post call (its start, the transfer's progress,
\* its end with a Response or an exception, on the main thread or on a
\* worker) changes any client's Impl or the configuration an Impl holds: the
\* configuration a later call reads is the one the constructor stored.
C22_CallsLeaveConfigAlone ==
    [][\A t \in Threads :
          (call'[t] # call[t] /\ call'[t].pc \in {"perform", "done"}) =>
              (impls' = impls /\ clients' = clients)]_vars

\* a call made on a client constructed with the certificate configuration
\* has ended, and the client's Impl still holds that configuration
C22_Witness ==
    /\ Ended(MainThread)
    /\ call[MainThread].performs = 1
    /\ call[MainThread].curl.SSLCERT = "client.pem"
    /\ \E c \in ClientIds :
          /\ clients[c].alive /\ clients[c].pimpl # NULL
          /\ impls[clients[c].pimpl] = HttpClientConfig(0, 0, "client.pem", "client.key", "secret")

\* the clients that own Impl i
Owners(i) == {c \in ClientIds : clients[c].alive /\ clients[c].pimpl = i}

\* C23: whatever clients are constructed, move-constructed, move-assigned
\* and destroyed, every live Impl is owned by exactly one live HttpClient,
\* and no HttpClient points to an Impl that was deleted.
C23_UniqueOwnership ==
    /\ \A i \in ImplIds : Cardinality(Owners(i)) = (IF impls[i] = NoImpl THEN 0 ELSE 1)
    /\ \A c \in ClientIds : ~clients[c].alive => clients[c].pimpl = NULL

\* client 2 owns the Impl client 1 was constructed with, and client 1, still
\* alive, owns a newer one: a move followed by a move assignment or by a
\* destruction and a construction
C23_Witness ==
    /\ clients[1].alive /\ clients[2].alive
    /\ clients[2].pimpl = 1
    /\ clients[1].pimpl = 2
    /\ impls[1] # NoImpl /\ impls[2] # NoImpl

\* the configuration of the client a call of CallSpec is made on
ConfigInUse == impls[clients[1].pimpl]

\* C24: the connect timeout and the request timeout set on the handle of
\* every transfer performed are the values of the client's configuration,
\* unchanged, a value of 0 included; a default-constructed configuration
\* holds 10000 ms and 30000 ms.
C24_TimeoutsPassedThrough ==
    /\ DefaultConfig.connectTimeoutMs = 10000
    /\ DefaultConfig.requestTimeoutMs = 30000
    /\ \A t \in Threads :
          call[t].performs > 0 =>
              /\ call[t].curl.CONNECTTIMEOUT_MS = ConfigInUse.connectTimeoutMs
              /\ call[t].curl.TIMEOUT_MS = ConfigInUse.requestTimeoutMs

\* a transfer is in progress with both timeouts 0, as configured
C24_Witness ==
    /\ ConfigInUse.connectTimeoutMs = 0 /\ ConfigInUse.requestTimeoutMs = 0
    /\ \E t \in Threads :
          /\ Performing(t)
          /\ call[t].curl.CONNECTTIMEOUT_MS = 0 /\ call[t].curl.TIMEOUT_MS = 0

\* C25: every transfer that reaches curl_easy_perform, for every
\* configuration and for get, raw-body post and multipart post alike, has
\* TLS 1.2 as its minimum TLS version and redirect following switched on.
C25_TlsFloorAndRedirects ==
    \A t \in Threads :
        call[t].performs > 0 =>
            /\ call[t].curl.SSLVERSION = "CURL_SSLVERSION_TLSv1_2"
            /\ call[t].curl.FOLLOWLOCATION = 1

\* a multipart post of a client without certificate is being performed with
\* both options set
C25_Witness ==
    /\ ConfigInUse.clientCertPath = nullopt
    /\ \E t \in Threads :
          /\ Performing(t)
          /\ call[t].req.op = "post_form"
          /\ call[t].curl.MIMEPOST.live
          /\ call[t].curl.SSLVERSION = "CURL_SSLVERSION_TLSv1_2"
          /\ call[t].curl.FOLLOWLOCATION = 1

\* the place of a resource in the order mime, header list, handle
ReleaseRank(r) == CASE r = MimeRes -> 1 [] r = EasyRes -> 3 [] OTHER -> 2

\* C26: while curl_easy_perform runs, everything the handle was given is
\* alive: the handle itself, every node of the header list set on it, the
\* multipart structure, the caller's POST body buffer and the frame's own
\* Response as body and header sink; nothing is released before
\* curl_easy_perform has returned, and when the call ends its resources are
\* released in the order multipart structure, header list, handle.
C26_AliveUntilPerformReturned ==
    \A t \in Threads :
        /\ call[t].pc = "perform" =>
              /\ call[t].freed = << >>
              /\ call[t].curl.live /\ EasyRes \in call[t].allocated
              /\ Len(call[t].curl.HTTPHEADER) = Len(call[t].slist)
              /\ \A i \in 1 .. Len(call[t].slist) :
                    /\ call[t].curl.HTTPHEADER[i] = call[t].slist[i].data
                    /\ SlistRes(call[t].slist[i].id) \in call[t].allocated
              /\ call[t].curl.MIMEPOST = call[t].mime
              /\ call[t].mime.live => MimeRes \in call[t].allocated
              /\ call[t].curl.WRITEDATA = t /\ call[t].curl.HEADERDATA = t
              /\ call[t].curl.POSTFIELDS \in {NoFrame, t}
        /\ Ended(t) =>
              \A i \in 1 .. Len(call[t].freed), j \in 1 .. Len(call[t].freed) :
                  i < j => ReleaseRank(call[t].freed[i]) <= ReleaseRank(call[t].freed[j])

\* a multipart post with a custom header was performed and has ended: the
\* multipart structure, the header list and the handle were released, in
\* this order
C26_Witness ==
    \E t \in Threads :
        /\ Ended(t) /\ call[t].performs = 1
        /\ call[t].freed = <<MimeRes, SlistRes(1), EasyRes>>

\* the iterations of build_headers whose curl_slist_append failed in
\* activation c, and the last of them (0 when none failed)
FailedAppends(c) ==
    {i \in 1 .. Cardinality(DOMAIN c.req.headers) : SlistRes(i) \notin c.allocated}
LastFailedAppend(c) ==
    IF FailedAppends(c) = {} THEN 0
    ELSE CHOOSE i \in FailedAppends(c) : \A j \in FailedAppends(c) : j <= i

\* C27: a failing curl_slist_append raises no error: the call goes on to the
\* transfer.  The header list set on the handle is made of the entries
\* appended after the last failure, in map order (nothing is set when the
\* last append failed, all headers when none did); the entries appended
\* before a failure are not on the handle and are never released, while the
\* entries after it are released when the call ends.
C27_FailedAppendDropsEarlierHeaders ==
    \A t \in Threads :
        (Started(t) /\ EasyRes \in call[t].allocated) =>
            LET c == call[t]
                keys == SortedKeys(DOMAIN c.req.headers)
                last == LastFailedAppend(c)
                kept == [i \in 1 .. (Len(keys) - last) |->
                            HeaderString(keys[last + i], c.req.headers[keys[last + i]])]
            IN  /\ c.curl.HTTPHEADER = kept
                /\ (c.req.op = "get" /\ Alive) => c.performs = 1
                /\ c.outcome = "CurlException" =>
                      c.what \in { "POST body is too large to be handled by libcurl.",
                                   "curl_mime_init() failed." }
                         \/ c.res # "none"
                /\ \A i \in 1 .. Len(keys) :
                      /\ ReleaseCount(c, SlistRes(i)) <= 1
                      /\ Ended(t) =>
                            (ReleaseCount(c, SlistRes(i)) = 1 <=> i > last)

\* a get with two headers whose first append succeeded and whose second
\* failed was performed without header list and has ended; the first node
\* was never released
C27_Witness ==
    \E t \in Threads :
        /\ Ended(t) /\ call[t].performs = 1
        /\ Cardinality(DOMAIN call[t].req.headers) = 2
        /\ FailedAppends(call[t]) = {2}
        /\ call[t].curl.HTTPHEADER = << >>
        /\ call[t].freed = <<EasyRes>>

C29_HttpErrorStatusIsAResponse ==
    \A t \in Threads :
        /\ call[t].res # "CURLE_HTTP_RETURNED_ERROR"
        /\ (Ended(t) /\ call[t].res = "CURLE_OK") =>
              LET got == Exchange(call[t].curl)
              IN  /\ call[t].outcome = "response"
                  /\ call[t].what = IdleCall.what
                  /\ call[t].result.statusCode = got.status
                  /\ got.status >= 400 =>
                        /\ call[t].result.body = Concat(got.chunks)
                        /\ call[t].result.headers = HeadersOf(got.lines)

\* a call has returned the Response of a 404 answer with its body and its
\* header
C29_Witness ==
    \E t \in Threads :
        /\ Ended(t) /\ call[t].outcome = "response"
        /\ call[t].res = "CURLE_OK"
        /\ call[t].result.statusCode = 404
        /\ call[t].result.body = <<"n", "f">>
        /\ call[t].result.headers = [k \in { <<"X">> } |-> <<"j">>]

\* C30: when redirects are followed within one call, the header lines of
\* every response of the chain go to the same map: the headers of the
\* returned Response are the last-write-wins merge of all of them, in wire
\* order (a header only an intermediate response sent, such as Location,
\* stays; a header sent by several takes the last value), and statusCode is
\* the status of the final response.
C30_RedirectHeadersMerge ==
    \A t \in Threads :
        (Ended(t) /\ call[t].outcome = "response") =>
            LET s == Server(call[t].req.url)
                chain == HopLines(s.hops) \o s.lines
            IN  /\ call[t].lines = chain
                /\ call[t].result.headers = HeadersOf(chain)
                /\ \A i \in 1 .. Len(chain) :
                      Find(chain[i], ":") # npos =>
                          ParsedKey(chain[i]) \in DOMAIN call[t].result.headers
                /\ \A k \in DOMAIN HeadersOf(s.lines) :
                      call[t].result.headers[k] = HeadersOf(s.lines)[k]
                /\ call[t].result.statusCode = s.status

\* a call to the redirecting URL has returned: status 200 of the final
\* response, Location of the 302 response, and for the header both sent the
\* final response's value
C30_Witness ==
    \E t \in Threads :
        /\ Ended(t) /\ call[t].outcome = "response"
        /\ call[t].req.url = UrlRedirect
        /\ call[t].result.statusCode = 200
        /\ call[t].result.headers =
              [k \in { <<"L">>, <<"X">> } |-> IF k = <<"L">> THEN <<"r">> ELSE <<"h", "b">>]

=============================================================================
